---- MODULE Spec2Model ----
(***************************************************************************)
(* Model of the multi-tenant RAG service:                                  *)
(*   - the asynchronous ingestion pipeline of internal/document            *)
(*     (Repository, Service.Upload, Service.Delete, Service.worker,        *)
(*     Service.ingest, splitDocument);                                     *)
(*   - the vector store wrapper and the RAG query of internal/retrieval    *)
(*     (LangChainVectorStore, RAGService.Query);                           *)
(*   - the SSE relay of internal/llm (OpenAIClient.StreamCompletion);      *)
(*   - the two query handlers of internal/api (query, querySync).          *)
(*                                                                         *)
(* Spec      is the ingestion pipeline with uploads and deletes.           *)
(* SpecStop  is the same pipeline in a process that may stop.              *)
(* SpecStore is the vector store under calls of AddDocuments alone.        *)
(* SpecSplit is the same pipeline after the upload of one document whose   *)
(*           content ranges over the texts splitDocument is examined on.   *)
(* SpecQuery is one query request (streaming or buffered) served through   *)
(*           the router, against the store an ingestion run has left       *)
(*           behind.                                                       *)
(* SpecPool  is the pipeline over the queue capacities and pool sizes.     *)
(***************************************************************************)
EXTENDS Integers, Sequences, FiniteSets, TLC

\* ---------------------------------------------------------------- bounds
\* Number of uploads (document ids) a behaviour may create.
MaxDocs == 2
\* Capacity of the jobs channel; the code makes it 256 (NewService).
QueueCap == 1
\* Number of worker goroutines; the code starts 4 (NewService).
NumWorkers == 1
\* Length, in characters, of the longest unbroken run of text an upload carries.
MaxContent == 600
\* Capacity of the sink channel; the handlers make it 64 (query) and 256
\* (querySync).
OutCap == 1
\* Number of SSE lines the completion provider sends in one response.
MaxLines == 2
\* Largest top_k a request carries.
MaxTopK == 1
\* Number of times the same chunk is handed to AddDocuments.
MaxWrites == 3
\* Largest pool of worker goroutines of the services SpecPool starts.
PoolSize == 2
\* Largest capacity of the jobs channel of the services SpecPool starts.
PoolCap == 2

\* ------------------------------------------------------ program constants
\* textsplitter.WithChunkSize(512)
ChunkSize == 512
\* textsplitter.WithChunkOverlap(64)
ChunkOverlap == 64

Orgs == {"orgA", "orgB"}
DocIds == 1..MaxDocs
Workers == 1..NumWorkers
\* A text is `words` words of `wlen` characters each, separated by single
\* spaces and free of newlines: NoText is "", Blank is " " (two empty words
\* around one space), Token(n) is n characters without a space.
NoText == [words |-> 0, wlen |-> 0]
Blank == [words |-> 2, wlen |-> 0]
Token(n) == [words |-> 1, wlen |-> n]

\* Contents an upload may carry: blank content, which passes the handler's
\* check for "" and gives no chunk, or a text longer than one chunk.
Contents == {Blank, Token(MaxContent)}

\* Contents splitDocument is examined on.
SplitTexts ==
    {NoText, Blank, Token(MaxContent), Token(ChunkSize),
     [words |-> 2, wlen |-> 300], [words |-> 2, wlen |-> MaxContent],
     [words |-> 1200, wlen |-> 1], [words |-> 1200, wlen |-> 5]}

\* document.Status
StatusPending == "pending"
StatusProcessing == "processing"
StatusReady == "ready"
StatusFailed == "failed"

VARIABLES
    docs,        \* documents table: id -> row, or NoRow
    nextId,      \* next fresh document id (uuid.NewString)
    jobs,        \* Service.jobs, the buffered channel of ingestJob
    workers,     \* per worker goroutine: position in worker/ingest, its job
    store,       \* rows of the vector store (langchain_pg_embedding)
    fate,        \* history: what became of each document's job
    foreignDelete,  \* history: TRUE once a Delete that returned nil has named
                    \* another tenant's document with chunks in the store
    uploading,   \* per document: the job of the Upload call that has created
                 \* its row and has not yet run its select, or NoJob
    sendOrder,   \* history: the documents whose jobs were sent, in that order
    \* ---- one query request
    req,         \* the request: mode (query / querySync), org_id, question, top_k
    hpc,         \* position of the handler
    qpc,         \* position of the goroutine running RAGService.Query
    qerr,        \* the error Query returns ("nil" for nil), "none" while undecided
    out,         \* the sink: buffered content of the channel out
    closed,      \* number of close(out) calls executed
    cancelled,   \* ctx.Done() is closed (the caller abandoned the request)
    retrieved,   \* chunks SimilaritySearch returned, placed into the prompt
    searchK,     \* top_k passed to SimilaritySearch
    produced,    \* SSE lines the completion provider has sent so far
    cur,         \* fragment the relay is about to send
    events,      \* what the handler has written to the response
    httpStatus,  \* status code of the response, 0 while none is written
    sent,        \* history: fragments the sink has received, in order
    observed,    \* history: the relay took the <-ctx.Done() branch
    raced        \* history: a select ran with both of its cases ready

ingestVars == <<docs, nextId, jobs, workers, store, fate, foreignDelete,
                uploading, sendOrder>>

queryVars == <<req, hpc, qpc, qerr, out, closed, cancelled, retrieved, searchK,
               produced, cur, events, httpStatus, sent, observed, raced>>

vars == <<ingestVars, queryVars>>

\* An absent row of the documents table.
NoRow == [org_id |-> "none", content |-> NoText, status |-> "absent", chunk_count |-> 0]

Exists(id) == docs[id] # NoRow

NoJob == [id |-> 0, org_id |-> "none", content |-> NoText]

IdleWorker == [pc |-> "idle", job |-> NoJob, chunks |-> <<>>]

\* ------------------------------------------------------------ Repository
\* INSERT INTO documents ... (status pending, chunk_count 0)
Create(id, org, content) ==
    [docs EXCEPT ![id] = [org_id |-> org, content |-> content,
                          status |-> StatusPending, chunk_count |-> 0]]

\* UPDATE documents SET status=$1, chunk_count=$2 WHERE id=$4
\* (a missing row is updated by nobody and is no error)
UpdateStatus(id, status, chunkCount) ==
    IF Exists(id)
    THEN [docs EXCEPT ![id].status = status, ![id].chunk_count = chunkCount]
    ELSE docs

\* Mutant of RepoDelete: the statement without "AND org_id=$2".
RepoDelete_Mut(id, orgID) ==
    IF Exists(id) THEN [docs EXCEPT ![id] = NoRow] ELSE docs

\* DELETE FROM documents WHERE id=$1 AND org_id=$2
RepoDelete(id, orgID) ==
    IF Exists(id) /\ docs[id].org_id = orgID
    THEN [docs EXCEPT ![id] = NoRow]
    ELSE docs

\* Mutant of ListByOrg: the statement without "WHERE org_id=$1".
ListByOrg_Mut(orgID) == {id \in DocIds : Exists(id)}

\* SELECT ... FROM documents WHERE org_id=$1
ListByOrg(orgID) == {id \in DocIds : Exists(id) /\ docs[id].org_id = orgID}

\* ---------------------------------------------------------- splitDocument
\* textsplitter.NewRecursiveCharacter(WithChunkSize(512), WithChunkOverlap(64))
\* with the defaults of the library: separators "\n\n", "\n", " ", "" and
\* lengths counted in characters.

\* shouldPop of the splitter: drop the first split of currentDoc while what is
\* kept is longer than the overlap, or would not fit with the next split.
shouldPop(total, splitLen, separatorLen, currentDocLen) ==
    LET sepLen == IF currentDocLen < 2 THEN 0 ELSE separatorLen
    IN /\ currentDocLen > 0
       /\ \/ total > ChunkOverlap
          \/ total + splitLen + sepLen > ChunkSize /\ total > 0

\* Length of currentDoc when it holds count splits of length L joined by
\* separators of length S.
Total(count, L, S) == IF count = 0 THEN 0 ELSE count * L + (count - 1) * S

\* Length of a currentDoc of count splits after k of them have been dropped.
Popped(count, k, L, S) ==
    Total(count, L, S) - k * L - S * (IF k < count THEN k ELSE count - 1)

\* Number of rounds of the loop `for shouldPop(...)`.
Pops(count, L, S) ==
    CHOOSE k \in 0..count :
        /\ ~shouldPop(Popped(count, k, L, S), L, S, count - k)
        /\ \A j \in 0..(k - 1) : shouldPop(Popped(count, j, L, S), L, S, count - j)

\* totalWithSplit > chunkSize && len(currentDoc) > 0
Overflows(count, L, S) == count > 0 /\ Total(count, L, S) + L + S > ChunkSize

\* The first split at or after split i at which currentDoc, holding count
\* splits before split i, is emitted; n + 1 if the splits end before.
NextFlush(i, n, count, L, S) ==
    CHOOSE j \in i..(n + 1) :
        /\ j = n + 1 \/ Overflows(count + (j - i), L, S)
        /\ \A k \in i..(j - 1) : ~Overflows(count + (k - i), L, S)

\* mergeSplits over n splits of length L and a separator of length S, from
\* split i on with currentDoc holding count splits, the first of them split
\* `first`: the documents it emits, as ranges of splits. A document that
\* TrimSpace leaves empty (L = 0) is not emitted.
RECURSIVE MergeLoop(_, _, _, _, _, _)
MergeLoop(i, n, first, count, L, S) ==
    LET j == NextFlush(i, n, count, L, S)
        cnt == count + (j - i)
        doc == IF cnt > 0 /\ L > 0
               THEN <<[first |-> first, last |-> first + cnt - 1]>>
               ELSE <<>>
    IN IF j = n + 1 THEN doc
       ELSE LET k == Pops(cnt, L, S)
            IN doc \o MergeLoop(j + 1, n, first + k, cnt - k + 1, L, S)

\* mergeSplits, its documents as ranges [lo, hi) of characters of the text;
\* the first split starts at character `base`.
mergeSplits(n, L, S, base) ==
    LET r == MergeLoop(1, n, 1, 0, L, S)
    IN [c \in DOMAIN r |->
          [lo |-> base + (r[c].first - 1) * (L + S),
           hi |-> base + (r[c].first - 1) * (L + S)
                       + Total(r[c].last - r[c].first + 1, L, S)]]

\* The chunks of the words from word w on, each word at least ChunkSize long
\* and so split on its own with the separator "".
RECURSIVE SplitLongWords(_, _)
SplitLongWords(text, w) ==
    IF w > text.words THEN <<>>
    ELSE mergeSplits(text.wlen, 1, 0, (w - 1) * (text.wlen + 1))
         \o SplitLongWords(text, w + 1)

\* RecursiveCharacter.SplitText: the first separator the text contains is
\* " " if it has more than one word and "" otherwise. The splits shorter than
\* ChunkSize are merged; a longer split is split again with the separators
\* that are left.
SplitText(text) ==
    IF text.words >= 2
    THEN IF text.wlen < ChunkSize
         THEN mergeSplits(text.words, text.wlen, 1, 0)
         ELSE SplitLongWords(text, 1)
    ELSE mergeSplits(text.words * text.wlen, 1, 0, 0)

\* The chunks of every text the model uses.
SplitTable == [text \in Contents \cup SplitTexts \cup {NoText} |-> SplitText(text)]

NumChunks(text) == Len(SplitTable[text])

\* The most chunks a text has.
MaxChunks ==
    CHOOSE m \in {NumChunks(text) : text \in DOMAIN SplitTable} :
        \A text \in DOMAIN SplitTable : NumChunks(text) <= m

Min(a, b) == IF a < b THEN a ELSE b

\* textsplitter.CreateDocuments: every chunk carries the metadata of its
\* parent (org_id, document_id) and its part of the content as page content.
splitDocument(doc) ==
    [i \in 1..NumChunks(doc.content) |->
        [org_id |-> doc.org_id,
         document_id |-> doc.id,
         lo |-> SplitTable[doc.content][i].lo,
         hi |-> SplitTable[doc.content][i].hi]]

Range(s) == {s[i] : i \in DOMAIN s}

\* The worker goroutines NewService started.
Pool == DOMAIN workers

\* make(chan ingestJob, cap)
MakeChan(cap) == [buf |-> <<>>, cap |-> cap]

\* The process is up: its worker goroutines exist.
Running == \A w \in Pool : workers[w].pc # "stopped"

\* ---------------------------------------------------------------- Init
InitIngest ==
    /\ docs = [id \in DocIds |-> NoRow]
    /\ nextId = 1
    /\ jobs = MakeChan(QueueCap)
    /\ workers = [w \in Workers |-> IdleWorker]
    /\ store = {}
    /\ fate = [id \in DocIds |-> "none"]
    /\ foreignDelete = FALSE
    /\ uploading = [id \in DocIds |-> NoJob]
    /\ sendOrder = <<>>

\* ------------------------------------------------------- Service.Upload
\* Mutant of UploadCreateFails: the error of repo.Create is not checked and
\* Upload goes on to its select.
UploadCreateFails_Mut(org, content) ==
    /\ Running
    /\ nextId <= MaxDocs
    /\ nextId' = nextId + 1
    /\ fate' = [fate EXCEPT ![nextId] = "notCreated"]
    /\ uploading' = [uploading EXCEPT ![nextId] =
                        [id |-> nextId, org_id |-> org, content |-> content]]
    /\ UNCHANGED <<docs, jobs, workers, store, foreignDelete, sendOrder>>
    /\ UNCHANGED queryVars

\* repo.Create failed: the error is returned, nothing is enqueued.
UploadCreateFails(org, content) ==
    /\ Running
    /\ nextId <= MaxDocs
    /\ nextId' = nextId + 1
    /\ fate' = [fate EXCEPT ![nextId] = "notCreated"]
    /\ UNCHANGED <<docs, jobs, workers, store, foreignDelete>>
    /\ UNCHANGED <<uploading, sendOrder>>
    /\ UNCHANGED queryVars

\* doc := &Document{ID: uuid.NewString(), ..., Status: StatusPending};
\* repo.Create(ctx, doc) returns nil. The select comes in a later step: other
\* requests and the workers run between the two.
UploadCreate(org, content) ==
    /\ Running
    /\ nextId <= MaxDocs
    /\ nextId' = nextId + 1
    /\ docs' = Create(nextId, org, content)
    /\ uploading' = [uploading EXCEPT ![nextId] =
                        [id |-> nextId, org_id |-> org, content |-> content]]
    /\ fate' = [fate EXCEPT ![nextId] = "created"]
    /\ UNCHANGED <<jobs, workers, store, foreignDelete, sendOrder>>
    /\ UNCHANGED queryVars

\* Mutant of UploadSend: the send is not guarded by a default case and the
\* job is added whatever the length of the queue.
UploadSend_Mut(id) ==
    /\ Running
    /\ uploading[id] # NoJob
    /\ uploading' = [uploading EXCEPT ![id] = NoJob]
    /\ jobs' = [jobs EXCEPT !.buf = Append(@, uploading[id])]
    /\ sendOrder' = Append(sendOrder, id)
    /\ fate' = [fate EXCEPT ![id] = "queued"]
    /\ UNCHANGED <<docs, nextId, workers, store, foreignDelete>>
    /\ UNCHANGED queryVars

\* Mutant of UploadSend: the channel takes one job more than its capacity.
UploadSend_OneMore(id) ==
    /\ Running
    /\ uploading[id] # NoJob
    /\ uploading' = [uploading EXCEPT ![id] = NoJob]
    /\ IF Len(jobs.buf) <= jobs.cap
       THEN /\ jobs' = [jobs EXCEPT !.buf = Append(@, uploading[id])]
            /\ sendOrder' = Append(sendOrder, id)
            /\ fate' = [fate EXCEPT ![id] = "queued"]
       ELSE /\ jobs' = jobs
            /\ sendOrder' = sendOrder
            /\ fate' = [fate EXCEPT ![id] = "dropped"]
    /\ UNCHANGED <<docs, nextId, workers, store, foreignDelete>>
    /\ UNCHANGED queryVars

\* select { case s.jobs <- ingestJob{doc: doc}: default: slog.Warn }; return
\* doc, nil. The job carries the Document Upload built, whatever has become
\* of its row since.
UploadSend(id) ==
    /\ Running
    /\ uploading[id] # NoJob
    /\ uploading' = [uploading EXCEPT ![id] = NoJob]
    /\ IF Len(jobs.buf) < jobs.cap
       THEN /\ jobs' = [jobs EXCEPT !.buf = Append(@, uploading[id])]
            /\ sendOrder' = Append(sendOrder, id)
            /\ fate' = [fate EXCEPT ![id] = "queued"]
       ELSE /\ jobs' = jobs
            /\ sendOrder' = sendOrder
            /\ fate' = [fate EXCEPT ![id] = "dropped"]
    /\ UNCHANGED <<docs, nextId, workers, store, foreignDelete>>
    /\ UNCHANGED queryVars

\* ---------------------------------------- LangChainVectorStore.AddDocuments
\* A row of the store holds the page content (the range lo..hi of its
\* document) and the metadata of a chunk under an identifier the store makes
\* up for it; the chunks carry no chunk index and no identifier of their own.
\* The identifier is kept as a number: the row is the uuid-th row with this
\* content and metadata.
Row(chunk, n) ==
    [org_id |-> chunk.org_id, document_id |-> chunk.document_id,
     lo |-> chunk.lo, hi |-> chunk.hi, uuid |-> n]

PageOf(row) ==
    [org_id |-> row.org_id, document_id |-> row.document_id,
     lo |-> row.lo, hi |-> row.hi]

Copies(rows, chunk) == Cardinality({r \in rows : PageOf(r) = chunk})

\* store.AddDocuments(ctx, docs): one new row for every chunk handed over.
AddDocuments(rows, chunks) ==
    rows \cup
    {Row(chunks[i], Copies(rows, chunks[i])
                    + Cardinality({j \in 1..i : chunks[j] = chunks[i]})) :
        i \in DOMAIN chunks}

\* AddDocuments called on its own with the chunks of a document.
StoreAdd(id, org, content) ==
    LET chunks == splitDocument([id |-> id, org_id |-> org, content |-> content])
    IN /\ chunks # <<>>
       /\ Copies(store, chunks[1]) < MaxWrites
       /\ store' = AddDocuments(store, chunks)
       /\ UNCHANGED <<docs, nextId, jobs, workers, fate, foreignDelete>>
       /\ UNCHANGED <<uploading, sendOrder>>
       /\ UNCHANGED queryVars

\* ------------------------------------ LangChainVectorStore.DeleteByDocument
\* Mutant of DeleteByDocument: the call removes the whole collection.
DeleteByDocument_All(documentID) == {}

\* The body is store.RemoveCollection(ctx, nil), which the source marks as a
\* no-op placeholder: the documentID is not used and no row of the store is
\* removed, whether the call returns nil or an error.
DeleteByDocument(documentID) == store

\* The rows of the store that carry document_id id.
ChunksOf(id) == {c \in store : c.document_id = id}

\* ------------------------------------------------------- Service.Delete
\* if err := vectorStore.DeleteByDocument(ctx, id); err != nil { return err }
\* return repo.Delete(ctx, id, orgID)
\* outcome: DeleteByDocument fails ("vsError"), or it returns nil and
\* repo.Delete fails ("repoError"), or both return nil ("ok").
DeleteOutcomes == {"vsError", "repoError", "ok"}

DeleteResult(outcome) == IF outcome = "ok" THEN "ok" ELSE "error"

DeleteTarget(id, orgID) ==
    IF ~Exists(id) THEN "missing"
    ELSE IF docs[id].org_id = orgID THEN "owner" ELSE "foreign"

Delete(id, orgID, outcome) ==
    /\ Running
    /\ id < nextId
    /\ store' = DeleteByDocument(id)
    /\ docs' = IF outcome = "ok" THEN RepoDelete(id, orgID) ELSE docs
    /\ foreignDelete' = (foreignDelete \/ (/\ DeleteTarget(id, orgID) = "foreign"
                                            /\ outcome = "ok"
                                            /\ ChunksOf(id) # {}))
    /\ UNCHANGED <<nextId, jobs, workers, fate>>
    /\ UNCHANGED <<uploading, sendOrder>>
    /\ UNCHANGED queryVars

\* ------------------------------------------------------- Service.worker
\* Mutant of WorkerDequeue: the receive leaves the job in the channel.
WorkerDequeue_Mut(w) ==
    /\ workers[w].pc = "idle"
    /\ jobs.buf # <<>>
    /\ jobs' = jobs
    /\ workers' = [workers EXCEPT ![w] = [pc |-> "start", job |-> Head(jobs.buf),
                                          chunks |-> <<>>]]
    /\ UNCHANGED <<docs, nextId, store, fate, foreignDelete>>
    /\ UNCHANGED <<uploading, sendOrder>>
    /\ UNCHANGED queryVars

\* Mutant of WorkerDequeue: the receive takes the job sent last.
WorkerDequeue_Lifo(w) ==
    /\ workers[w].pc = "idle"
    /\ jobs.buf # <<>>
    /\ jobs' = [jobs EXCEPT !.buf = SubSeq(@, 1, Len(@) - 1)]
    /\ workers' = [workers EXCEPT ![w] = [pc |-> "start",
                                          job |-> jobs.buf[Len(jobs.buf)],
                                          chunks |-> <<>>]]
    /\ UNCHANGED <<docs, nextId, store, fate, foreignDelete>>
    /\ UNCHANGED <<uploading, sendOrder>>
    /\ UNCHANGED queryVars

\* for job := range s.jobs { s.ingest(job.doc) }
WorkerDequeue(w) ==
    /\ workers[w].pc = "idle"
    /\ jobs.buf # <<>>
    /\ jobs' = [jobs EXCEPT !.buf = Tail(@)]
    /\ workers' = [workers EXCEPT ![w] = [pc |-> "start", job |-> Head(jobs.buf),
                                          chunks |-> <<>>]]
    /\ UNCHANGED <<docs, nextId, store, fate, foreignDelete>>
    /\ UNCHANGED <<uploading, sendOrder>>
    /\ UNCHANGED queryVars

\* ------------------------------------------------------- Service.ingest
\* Every call of ingest runs under ctx, context.WithTimeout(Background, 5 min).
\* A call returns nil ("ok"), fails for its own reasons ("error"), or fails
\* because the deadline of ctx has run out ("deadline"); after that every
\* later call under the same ctx fails too.
CallOutcomes == {"ok", "error", "deadline"}

\* Mutant of IngestStart: the return after the failed update to processing
\* is missing and ingest goes on to split and to write.
IngestStart_NoReturn(w, outcome) ==
    /\ workers[w].pc = "start"
    /\ LET job == workers[w].job
           chunks == splitDocument(job)
       IN /\ docs' = IF outcome = "ok"
                     THEN UpdateStatus(job.id, StatusProcessing, 0) ELSE docs
          /\ workers' = [workers EXCEPT ![w].chunks = chunks,
                            ![w].pc = IF Len(chunks) = 0 THEN "markFailed" ELSE "add"]
          /\ fate' = [fate EXCEPT ![job.id] = "started"]
    /\ UNCHANGED <<nextId, jobs, store, foreignDelete>>
    /\ UNCHANGED <<uploading, sendOrder>>
    /\ UNCHANGED queryVars

\* UpdateStatus(processing, 0); on error return; else splitDocument.
IngestStart(w, outcome) ==
    /\ workers[w].pc = "start"
    /\ LET job == workers[w].job
           chunks == splitDocument(job)
       IN IF outcome # "ok"
          THEN /\ docs' = docs
               /\ workers' = [workers EXCEPT ![w] = IdleWorker]
               /\ fate' = [fate EXCEPT ![job.id] =
                              IF outcome = "deadline" THEN "deadline" ELSE "startWriteFailed"]
          ELSE /\ docs' = UpdateStatus(job.id, StatusProcessing, 0)
               /\ workers' = [workers EXCEPT ![w].chunks = chunks,
                                 ![w].pc = IF Len(chunks) = 0 THEN "markFailed" ELSE "add"]
               /\ fate' = [fate EXCEPT ![job.id] = "started"]
    /\ UNCHANGED <<nextId, jobs, store, foreignDelete>>
    /\ UNCHANGED <<uploading, sendOrder>>
    /\ UNCHANGED queryVars

\* Mutant of IngestAdd: the error of AddDocuments is not checked and ingest
\* goes on to the update to ready after a partial write.
IngestAdd_Mut(w, outcome, written) ==
    /\ workers[w].pc = "add"
    /\ written \in 0..Len(workers[w].chunks)
    /\ (outcome = "ok") <=> (written = Len(workers[w].chunks))
    /\ store' = AddDocuments(store, SubSeq(workers[w].chunks, 1, written))
    /\ workers' = [workers EXCEPT ![w].pc = "markReady"]
    /\ UNCHANGED <<docs, nextId, jobs, fate, foreignDelete>>
    /\ UNCHANGED <<uploading, sendOrder>>
    /\ UNCHANGED queryVars

\* vectorStore.AddDocuments(ctx, chunks): the chunks are written in order; on
\* success all of them are stored, on failure only the first `written` of
\* them, fewer than all.
IngestAdd(w, outcome, written) ==
    /\ workers[w].pc = "add"
    /\ written \in 0..Len(workers[w].chunks)
    /\ (outcome = "ok") <=> (written = Len(workers[w].chunks))
    /\ store' = AddDocuments(store, SubSeq(workers[w].chunks, 1, written))
    /\ workers' = [workers EXCEPT ![w].pc =
                      CASE outcome = "ok" -> "markReady"
                        [] outcome = "error" -> "markFailed"
                        [] outcome = "deadline" -> "markFailedExpired"]
    /\ UNCHANGED <<docs, nextId, jobs, fate, foreignDelete>>
    /\ UNCHANGED <<uploading, sendOrder>>
    /\ UNCHANGED queryVars

\* Mutant of IngestMarkFailed: the return after the update is missing and
\* ingest goes on to the update to ready.
IngestMarkFailed_Mut(w, outcome) ==
    /\ workers[w].pc \in {"markFailed", "markFailedExpired"}
    /\ workers[w].pc = "markFailedExpired" => outcome = "deadline"
    /\ LET job == workers[w].job
       IN /\ docs' = IF outcome = "ok" THEN UpdateStatus(job.id, StatusFailed, 0) ELSE docs
          /\ fate' = fate
    /\ workers' = [workers EXCEPT ![w].pc = "markReady"]
    /\ UNCHANGED <<nextId, jobs, store, foreignDelete>>
    /\ UNCHANGED <<uploading, sendOrder>>
    /\ UNCHANGED queryVars

\* _ = UpdateStatus(failed, 0); return
\* (at "markFailedExpired" the deadline of ctx has already run out)
IngestMarkFailed(w, outcome) ==
    /\ workers[w].pc \in {"markFailed", "markFailedExpired"}
    /\ workers[w].pc = "markFailedExpired" => outcome = "deadline"
    /\ LET job == workers[w].job
       IN /\ docs' = IF outcome = "ok" THEN UpdateStatus(job.id, StatusFailed, 0) ELSE docs
          /\ fate' = [fate EXCEPT ![job.id] =
                         CASE outcome = "ok" -> "finished"
                           [] outcome = "error" -> "finalWriteFailed"
                           [] outcome = "deadline" -> "deadline"]
    /\ workers' = [workers EXCEPT ![w] = IdleWorker]
    /\ UNCHANGED <<nextId, jobs, store, foreignDelete>>
    /\ UNCHANGED <<uploading, sendOrder>>
    /\ UNCHANGED queryVars

\* UpdateStatus(ready, len(chunks)); an error is only logged
IngestMarkReady(w, outcome) ==
    /\ workers[w].pc = "markReady"
    /\ LET job == workers[w].job
       IN /\ docs' = IF outcome = "ok"
                     THEN UpdateStatus(job.id, StatusReady, Len(workers[w].chunks))
                     ELSE docs
          /\ fate' = [fate EXCEPT ![job.id] =
                         CASE outcome = "ok" -> "finished"
                           [] outcome = "error" -> "finalWriteFailed"
                           [] outcome = "deadline" -> "deadline"]
    /\ workers' = [workers EXCEPT ![w] = IdleWorker]
    /\ UNCHANGED <<nextId, jobs, store, foreignDelete>>
    /\ UNCHANGED <<uploading, sendOrder>>
    /\ UNCHANGED queryVars

\* ------------------------------------------------------------------ main
\* The process stops (main returns after srv.Shutdown, or the process is
\* killed): the worker goroutines end wherever they are and the jobs channel
\* is gone with the memory of the process. The documents table and the
\* vector store stay as they are.
Stop ==
    /\ Running
    /\ workers' = [w \in Pool |-> [IdleWorker EXCEPT !.pc = "stopped"]]
    /\ jobs' = [jobs EXCEPT !.buf = <<>>]
    /\ uploading' = [id \in DocIds |-> NoJob]
    /\ UNCHANGED <<docs, nextId, store, fate, foreignDelete, sendOrder>>
    /\ UNCHANGED queryVars

\* ================================================================ query
NoReq == [mode |-> "none", org_id |-> "none", question |-> "", top_k |-> 0,
          writer |-> "none"]

Modes == {"stream", "sync"}

\* The http.ResponseWriter a handler is served with. NewRouter returns
\* loggingMiddleware(mux): every handler gets the wrapper responseWriter,
\* which embeds the http.ResponseWriter interface and adds WriteHeader only.
RouterWriters == {"responseWriter"}

\* flusher, ok := w.(http.Flusher): the wrapper has no Flush method.
IsFlusher(writer) == writer # "responseWriter"
Questions == {"", "q"}
TopKs == -1..MaxTopK

\* Text is a sequence of characters; the empty text is <<>>.
Newline == "\n"
Fragments == {<<"a", "b">>, <<Newline>>}

\* One line of the provider's event stream:
\*   "other"  a line without the prefix "data: " (blank line, comment)
\*   "done"   data: [DONE]
\*   "bad"    data: followed by something json.Unmarshal rejects
\*   "empty"  data: {"choices": []}
\*   "delta"  data: {"choices":[{"delta":{"content": content}}]}
Lines ==
    {[kind |-> k, content |-> <<>>] : k \in {"other", "done", "bad", "empty"}}
    \cup {[kind |-> "delta", content |-> c] : c \in Fragments \cup {<<>>}}

DONE == <<"[DONE]">>

InitQueryVars ==
    /\ req = NoReq
    /\ hpc = "idle"
    /\ qpc = "none"
    /\ qerr = "none"
    /\ out = <<>>
    /\ closed = 0
    /\ cancelled = FALSE
    /\ retrieved = {}
    /\ searchK = 0
    /\ produced = <<>>
    /\ cur = <<>>
    /\ events = <<>>
    /\ httpStatus = 0
    /\ sent = <<>>
    /\ observed = FALSE
    /\ raced = FALSE

\* The documents of `owner` (id -> org) uploaded and ingested, the pipeline
\* idle: the state an ingestion run leaves for the queries.
Ingested(owner) ==
    /\ docs = [id \in DocIds |->
                 [org_id |-> owner[id], content |-> Token(MaxContent),
                  status |-> StatusReady,
                  chunk_count |-> NumChunks(Token(MaxContent))]]
    /\ nextId = MaxDocs + 1
    /\ jobs = MakeChan(QueueCap)
    /\ workers = [w \in Workers |-> IdleWorker]
    /\ store = UNION {AddDocuments({}, splitDocument([id |-> id, org_id |-> owner[id],
                                                      content |-> Token(MaxContent)])) :
                         id \in DocIds}
    /\ fate = [id \in DocIds |-> "finished"]
    /\ uploading = [id \in DocIds |-> NoJob]
    /\ sendOrder = [i \in 1..MaxDocs |-> i]

InitQuery ==
    /\ \E owner \in [DocIds -> Orgs] : Ingested(owner)
    /\ foreignDelete = FALSE
    /\ InitQueryVars

\* Mutant of Candidates: the search without the org_id filter.
Candidates_Mut(orgID) == store

\* ------------------------------------- LangChainVectorStore.SimilaritySearch
\* store.SimilaritySearch(ctx, query, topK, WithFilters{"org_id": orgID}):
\* the rows whose metadata org_id is orgID are the candidates; which topK of
\* them are the most similar is up to the store.
Candidates(orgID) == {c \in store : c.org_id = orgID}

SimilaritySearch(orgID, topK) ==
    {r \in SUBSET Candidates(orgID) :
        Cardinality(r) = Min(topK, Cardinality(Candidates(orgID)))}

\* -------------------------------------------------------- handlers.query
\* strings.ReplaceAll(token, "\n", "\\n")
RECURSIVE Escape(_)
Escape(token) ==
    IF token = <<>> THEN <<>>
    ELSE (IF Head(token) = Newline THEN <<"\\", "n">> ELSE <<Head(token)>>)
         \o Escape(Tail(token))

\* Mutant of HandlerStart: the result of the http.Flusher assertion is not
\* tested and query goes on to start RAGService.Query.
HandlerStart_Mut(mode, org, question, topK, writer) ==
    /\ hpc = "idle"
    /\ req' = [mode |-> mode, org_id |-> org, question |-> question, top_k |-> topK,
               writer |-> writer]
    /\ IF mode = "stream" /\ question = ""
       THEN /\ hpc' = "done"
            /\ httpStatus' = 400
            /\ qpc' = qpc
       ELSE /\ hpc' = "range"
            /\ httpStatus' = httpStatus
            /\ qpc' = "retrieve"
    /\ UNCHANGED <<qerr, out, closed, cancelled, retrieved, searchK, produced, cur,
                   events, sent, observed, raced>>
    /\ UNCHANGED ingestVars

\* Decode the body; query rejects an empty question with 400 and a writer
\* that is no http.Flusher with 500, querySync looks at neither. Then
\* out := make(chan string, cap); go RAGService.Query.
HandlerStart(mode, org, question, topK, writer) ==
    /\ hpc = "idle"
    /\ req' = [mode |-> mode, org_id |-> org, question |-> question, top_k |-> topK,
               writer |-> writer]
    /\ IF mode = "stream" /\ question = ""
       THEN /\ hpc' = "done"
            /\ httpStatus' = 400
            /\ qpc' = qpc
       ELSE IF mode = "stream" /\ ~IsFlusher(writer)
       THEN /\ hpc' = "done"
            /\ httpStatus' = 500
            /\ qpc' = qpc
       ELSE /\ hpc' = "range"
            /\ httpStatus' = httpStatus
            /\ qpc' = "retrieve"
    /\ UNCHANGED <<qerr, out, closed, cancelled, retrieved, searchK, produced, cur,
                   events, sent, observed, raced>>
    /\ UNCHANGED ingestVars

\* The caller goes away: r.Context() is cancelled.
Cancel ==
    /\ hpc = "range"
    /\ ~cancelled
    /\ cancelled' = TRUE
    /\ UNCHANGED <<req, hpc, qpc, qerr, out, closed, retrieved, searchK, produced,
                   cur, events, httpStatus, sent, observed, raced>>
    /\ UNCHANGED ingestVars

\* for token := range out: one token received.
\* query writes "data: <escaped token>" and flushes; querySync appends the
\* token to the strings.Builder, which is kept in events[1].
HandlerReceive ==
    /\ hpc = "range"
    /\ out # <<>>
    /\ out' = Tail(out)
    /\ IF req.mode = "stream"
       THEN /\ events' = Append(events, Escape(Head(out)))
            /\ httpStatus' = 200
       ELSE /\ events' = IF events = <<>> THEN <<Head(out)>>
                         ELSE <<events[1] \o Head(out)>>
            /\ httpStatus' = httpStatus
    /\ UNCHANGED <<req, hpc, qpc, qerr, closed, cancelled, retrieved, searchK,
                   produced, cur, sent, observed, raced>>
    /\ UNCHANGED ingestVars

\* The range loop ends: out is closed and drained.
\* query writes "data: [DONE]"; querySync writes 200 {"answer": sb.String()}.
HandlerFinish ==
    /\ hpc = "range"
    /\ out = <<>>
    /\ closed > 0
    /\ hpc' = "done"
    /\ httpStatus' = 200
    /\ events' = IF req.mode = "stream" THEN Append(events, DONE)
                 ELSE IF events = <<>> THEN <<<<>>>> ELSE events
    /\ UNCHANGED <<req, qpc, qerr, out, closed, cancelled, retrieved, searchK,
                   produced, cur, sent, observed, raced>>
    /\ UNCHANGED ingestVars

\* ------------------------------------------------------ RAGService.Query
\* if req.TopK <= 0 { req.TopK = 5 }
DefaultTopK == 5

\* Mutant of ResolveTopK: the test is req.TopK < 0, so 0 goes through.
ResolveTopK_Mut(topK) == IF topK < 0 THEN DefaultTopK ELSE topK

ResolveTopK(topK) == IF topK <= 0 THEN DefaultTopK ELSE topK

\* S1 fails: return fmt.Errorf("similarity search: %w", err); out stays open.
\* A search under a cancelled ctx fails.
QueryRetrieveFails ==
    /\ qpc = "retrieve"
    /\ searchK' = ResolveTopK(req.top_k)
    /\ qerr' = "search"
    /\ qpc' = "returned"
    /\ UNCHANGED <<req, hpc, out, closed, cancelled, retrieved, produced, cur,
                   events, httpStatus, sent, observed, raced>>
    /\ UNCHANGED ingestVars

\* Mutant of QueryRetrieve: an empty result is returned as an error before
\* StreamCompletion is called.
QueryRetrieve_Mut(results) ==
    /\ qpc = "retrieve"
    /\ ~cancelled
    /\ searchK' = ResolveTopK(req.top_k)
    /\ results \in SimilaritySearch(req.org_id, ResolveTopK(req.top_k))
    /\ retrieved' = results
    /\ IF results = {}
       THEN qpc' = "returned" /\ qerr' = "empty"
       ELSE qpc' = "connect" /\ qerr' = qerr
    /\ UNCHANGED <<req, hpc, out, closed, cancelled, produced, cur, events,
                   httpStatus, sent, observed, raced>>
    /\ UNCHANGED ingestVars

\* S1 succeeds, S2 builds the context block from the results, S3 calls
\* StreamCompletion.
QueryRetrieve(results) ==
    /\ qpc = "retrieve"
    /\ ~cancelled
    /\ searchK' = ResolveTopK(req.top_k)
    /\ results \in SimilaritySearch(req.org_id, ResolveTopK(req.top_k))
    /\ retrieved' = results
    /\ qpc' = "connect"
    /\ UNCHANGED <<req, hpc, qerr, out, closed, cancelled, produced, cur, events,
                   httpStatus, sent, observed, raced>>
    /\ UNCHANGED ingestVars

\* ------------------------------------------ OpenAIClient.StreamCompletion
\* defer close(out); build the request; client.Do; check the status.
\* outcome: "request" (NewRequestWithContext or Do failed, as Do does under
\* a cancelled ctx), "status" (not 200), "ok".
ConnectOutcomes == {"request", "status", "ok"}

StreamConnect(outcome) ==
    /\ qpc = "connect"
    /\ cancelled => outcome = "request"
    /\ IF outcome = "ok"
       THEN /\ qpc' = "scan"
            /\ qerr' = qerr
       ELSE /\ qpc' = "closing"
            /\ qerr' = IF cancelled THEN "ctx" ELSE outcome
    /\ UNCHANGED <<req, hpc, out, closed, cancelled, retrieved, searchK, produced,
                   cur, events, httpStatus, sent, observed, raced>>
    /\ UNCHANGED ingestVars

\* scanner.Scan() returns false: the body ended (scanner.Err() is nil) or the
\* read failed (as a read under a cancelled ctx does).
RelayScanEnds(failed) ==
    /\ qpc = "scan"
    /\ qerr' = IF ~failed THEN "nil" ELSE IF cancelled THEN "ctx" ELSE "scan"
    /\ qpc' = "closing"
    /\ UNCHANGED <<req, hpc, out, closed, cancelled, retrieved, searchK, produced,
                   cur, events, httpStatus, sent, observed, raced>>
    /\ UNCHANGED ingestVars

\* Mutant of RelayScan: [DONE] does not break the loop.
RelayScan_Mut(line) ==
    /\ qpc = "scan"
    /\ Len(produced) < MaxLines
    /\ produced' = Append(produced, line)
    /\ IF line.kind = "delta" /\ line.content # <<>>
       THEN qpc' = "select" /\ cur' = line.content
       ELSE qpc' = "scan" /\ cur' = cur
    /\ qerr' = qerr
    /\ UNCHANGED <<req, hpc, out, closed, cancelled, retrieved, searchK, events,
                   httpStatus, sent, observed, raced>>
    /\ UNCHANGED ingestVars

\* scanner.Scan() returns a line (lines already buffered are returned under a
\* cancelled ctx too): skip it unless it starts with "data: "; break on
\* [DONE]; skip it if json.Unmarshal fails, if there is no choice or if the
\* content is empty; else go on to the select that sends the content.
RelayScan(line) ==
    /\ qpc = "scan"
    /\ Len(produced) < MaxLines
    /\ produced' = Append(produced, line)
    /\ IF line.kind = "other" THEN
            /\ qpc' = "scan" /\ cur' = cur /\ qerr' = qerr
       ELSE IF line.kind = "done" THEN
            /\ qpc' = "closing" /\ cur' = cur /\ qerr' = "nil"
       ELSE IF line.kind = "bad" THEN
            /\ qpc' = "scan" /\ cur' = cur /\ qerr' = qerr
       ELSE IF line.kind = "delta" /\ line.content # <<>> THEN
            /\ qpc' = "select" /\ cur' = line.content /\ qerr' = qerr
       ELSE /\ qpc' = "scan" /\ cur' = cur /\ qerr' = qerr
    /\ UNCHANGED <<req, hpc, out, closed, cancelled, retrieved, searchK, events,
                   httpStatus, sent, observed, raced>>
    /\ UNCHANGED ingestVars

\* select { case out <- content: ...
RelaySelectSend ==
    /\ qpc = "select"
    /\ Len(out) < OutCap
    /\ out' = Append(out, cur)
    /\ sent' = Append(sent, cur)
    /\ raced' = (raced \/ cancelled)
    /\ qpc' = "scan"
    /\ UNCHANGED <<req, hpc, qerr, closed, cancelled, retrieved, searchK, produced,
                   cur, events, httpStatus, observed>>
    /\ UNCHANGED ingestVars

\* Mutant of RelaySelectDone: the branch does not return and the loop goes on.
RelaySelectDone_Mut ==
    /\ qpc = "select"
    /\ cancelled
    /\ observed' = TRUE
    /\ raced' = (raced \/ Len(out) < OutCap)
    /\ qpc' = "scan"
    /\ UNCHANGED <<req, hpc, qerr, out, closed, cancelled, retrieved, searchK,
                   produced, cur, events, httpStatus, sent>>
    /\ UNCHANGED ingestVars

\* ... case <-ctx.Done(): return ctx.Err() }
RelaySelectDone ==
    /\ qpc = "select"
    /\ cancelled
    /\ observed' = TRUE
    /\ raced' = (raced \/ Len(out) < OutCap)
    /\ qerr' = "ctx"
    /\ qpc' = "closing"
    /\ UNCHANGED <<req, hpc, out, closed, cancelled, retrieved, searchK, produced,
                   cur, events, httpStatus, sent>>
    /\ UNCHANGED ingestVars

\* Mutant of StreamClose: the close is not deferred; it runs once where the
\* loop is left and the relay goes on scanning.
StreamClose_Early ==
    /\ qpc = "closing"
    /\ closed' = closed + 1
    /\ qpc' = IF closed = 0 THEN "scan" ELSE "returned"
    /\ UNCHANGED <<req, hpc, qerr, out, cancelled, retrieved, searchK, produced,
                   cur, events, httpStatus, sent, observed, raced>>
    /\ UNCHANGED ingestVars

\* The deferred close(out) runs and StreamCompletion, then Query, return.
StreamClose ==
    /\ qpc = "closing"
    /\ closed' = closed + 1
    /\ qpc' = "returned"
    /\ UNCHANGED <<req, hpc, qerr, out, cancelled, retrieved, searchK, produced,
                   cur, events, httpStatus, sent, observed, raced>>
    /\ UNCHANGED ingestVars

\* A request served through NewRouter.
NextQuery ==
    \/ \E mode \in Modes, org \in Orgs, question \in Questions, topK \in TopKs,
          writer \in RouterWriters :
          HandlerStart(mode, org, question, topK, writer)
    \/ Cancel
    \/ HandlerReceive
    \/ HandlerFinish
    \/ QueryRetrieveFails
    \/ \E results \in SUBSET store : QueryRetrieve(results)
    \/ \E o \in ConnectOutcomes : StreamConnect(o)
    \/ \E failed \in BOOLEAN : RelayScanEnds(failed)
    \/ \E line \in Lines : RelayScan(line)
    \/ RelaySelectSend
    \/ RelaySelectDone
    \/ StreamClose

\* ================================================================ ingestion
NextIngest ==
    \/ \E org \in Orgs, content \in Contents : UploadCreateFails(org, content)
    \/ \E org \in Orgs, content \in Contents : UploadCreate(org, content)
    \/ \E id \in DocIds : UploadSend(id)
    \/ \E id \in DocIds, org \in Orgs, o \in DeleteOutcomes : Delete(id, org, o)
    \/ \E w \in Pool : WorkerDequeue(w)
    \/ \E w \in Pool, o \in CallOutcomes : IngestStart(w, o)
    \/ \E w \in Pool, o \in CallOutcomes, written \in 0..MaxChunks :
          IngestAdd(w, o, written)
    \/ \E w \in Pool, o \in CallOutcomes : IngestMarkFailed(w, o)
    \/ \E w \in Pool, o \in CallOutcomes : IngestMarkReady(w, o)

Init == InitIngest /\ InitQueryVars

\* The ingestion pipeline with its uploads and deletes.
Spec == Init /\ [][NextIngest]_vars

\* One step of the worker goroutine w: the receive from the jobs channel or
\* the next call of ingest, whatever the call returns.
WorkerStep(w) ==
    \/ WorkerDequeue(w)
    \/ \E o \in CallOutcomes : IngestStart(w, o)
    \/ \E o \in CallOutcomes, written \in 0..MaxChunks : IngestAdd(w, o, written)
    \/ \E o \in CallOutcomes : IngestMarkFailed(w, o)
    \/ \E o \in CallOutcomes : IngestMarkReady(w, o)

\* The ingestion pipeline under a fair scheduler and collaborators that
\* always answer: a worker goroutine that can take a step takes one.
SpecLive == Spec /\ \A w \in Workers : WF_vars(WorkerStep(w))

\* The state after Service.Upload of one document with a content of
\* SplitTexts into the fresh service.
InitSplit ==
    /\ \E org \in Orgs, text \in SplitTexts :
          /\ docs = [id \in DocIds |->
                       IF id = 1
                       THEN [org_id |-> org, content |-> text,
                             status |-> StatusPending, chunk_count |-> 0]
                       ELSE NoRow]
          /\ jobs = [MakeChan(QueueCap) EXCEPT
                       !.buf = <<[id |-> 1, org_id |-> org, content |-> text]>>]
    /\ nextId = 2
    /\ workers = [w \in Workers |-> IdleWorker]
    /\ store = {}
    /\ fate = [id \in DocIds |-> IF id = 1 THEN "queued" ELSE "none"]
    /\ foreignDelete = FALSE
    /\ uploading = [id \in DocIds |-> NoJob]
    /\ sendOrder = <<1>>
    /\ InitQueryVars

\* The ingestion pipeline started with one document of SplitTexts uploaded.
SpecSplit == InitSplit /\ [][NextIngest]_vars

\* NewService with a pool of up to PoolSize workers and a jobs channel of a
\* capacity up to PoolCap.
InitPool ==
    /\ docs = [id \in DocIds |-> NoRow]
    /\ nextId = 1
    /\ \E cap \in 1..PoolCap : jobs = MakeChan(cap)
    /\ \E n \in 1..PoolSize : workers = [w \in 1..n |-> IdleWorker]
    /\ store = {}
    /\ fate = [id \in DocIds |-> "none"]
    /\ foreignDelete = FALSE
    /\ uploading = [id \in DocIds |-> NoJob]
    /\ sendOrder = <<>>
    /\ InitQueryVars

\* The ingestion pipeline of a service with several workers.
SpecPool == InitPool /\ [][NextIngest]_vars

\* The vector store under calls of AddDocuments alone.
NextStore ==
    \E id \in DocIds, org \in Orgs, content \in Contents : StoreAdd(id, org, content)

SpecStore == Init /\ [][NextStore]_vars

\* The ingestion pipeline in a process that may stop at any moment.
NextStop == NextIngest \/ Stop

SpecStop == Init /\ [][NextStop]_vars

\* One query request against an ingested store.
SpecQuery == InitQuery /\ [][NextQuery]_vars

\* One step of the goroutine that runs RAGService.Query.
QueryStep ==
    \/ QueryRetrieveFails
    \/ \E results \in SUBSET store : QueryRetrieve(results)
    \/ \E o \in ConnectOutcomes : StreamConnect(o)
    \/ \E failed \in BOOLEAN : RelayScanEnds(failed)
    \/ \E line \in Lines : RelayScan(line)
    \/ RelaySelectSend
    \/ RelaySelectDone
    \/ StreamClose

\* One step of the request handler after it has started the query.
HandlerStep == HandlerReceive \/ HandlerFinish

\* A query under a fair scheduler and collaborators that always answer: the
\* query goroutine and the handler take the steps they can take.
SpecQueryLive == SpecQuery /\ WF_vars(QueryStep) /\ WF_vars(HandlerStep)
\* ================================================================ claims
IsPrefix(s, t) == Len(s) <= Len(t) /\ \A i \in 1..Len(s) : s[i] = t[i]

\* The fragments of an event stream: the non-empty contents of its delta
\* lines, in order, up to the first [DONE].
RECURSIVE ProviderFragments(_)
ProviderFragments(lines) ==
    IF lines = <<>> THEN <<>>
    ELSE IF Head(lines).kind = "done" THEN <<>>
    ELSE IF Head(lines).kind = "delta" /\ Head(lines).content # <<>>
         THEN <<Head(lines).content>> \o ProviderFragments(Tail(lines))
         ELSE ProviderFragments(Tail(lines))

\* Query failed in its retrieval step or in its completion step.
Failures == {"search", "request", "status", "scan"}

Quiesced ==
    /\ jobs.buf = <<>>
    /\ \A w \in Pool : workers[w].pc = "idle"
    /\ \A id \in DocIds : uploading[id] = NoJob

\* C1: when Query has returned, whatever the exit path, the sink has been
\* closed exactly once.
C1_SinkClosedOnEveryExit == qpc = "returned" => closed = 1

\* C2: once the relay has observed the cancellation, the sink receives no
\* further fragment, no further line is read from the provider, and the sink
\* is closed at most once, exactly once when the relay has returned.
C2_CancelStopsRelay ==
    /\ [](observed => /\ qpc \in {"closing", "returned"}
                      /\ closed <= 1
                      /\ (qpc = "returned" => closed = 1))
    /\ [][observed' => (sent' = sent /\ produced' = produced)]_vars

\* C2 witness: the relay has sent a fragment, a select has run with the send
\* and the cancellation both ready, the cancellation was observed and the
\* relay has returned.
C2_Witness ==
    observed /\ raced /\ qpc = "returned" /\ closed = 1 /\ Len(sent) >= 1

\* C3: the fragments the sink has received are a prefix of the fragments the
\* provider has produced, equal to them when Query returns nil, and a
\* fragment once received is never taken back.
C3_SinkIsPrefix ==
    /\ [](/\ IsPrefix(sent, ProviderFragments(produced))
          /\ (qpc = "returned" /\ qerr = "nil" => sent = ProviderFragments(produced)))
    /\ [][IsPrefix(sent, sent')]_vars

\* C3 witness: a successful query that relayed two different fragments.
C3_Witness ==
    qpc = "returned" /\ qerr = "nil" /\ Len(sent) = 2 /\ sent[1] # sent[2]

\* C4: a finished streaming query has ended in one of two ways: Query
\* returned nil and the handler has answered 200 with every fragment of the
\* provider, in order, followed by [DONE] as its last event; or the handler
\* has answered with an error status and has written no [DONE]. [DONE] is
\* never written for a query whose retrieval or completion failed.
C4_DoneOnlyOnSuccess ==
    /\ (req.mode = "stream" /\ hpc = "done") =>
          \/ /\ qerr = "nil" /\ httpStatus = 200
             /\ events = [i \in 1..Len(ProviderFragments(produced)) |->
                             Escape(ProviderFragments(produced)[i])] \o <<DONE>>
          \/ /\ httpStatus \in {400, 500}
             /\ DONE \notin Range(events)
    /\ (req.mode = "stream" /\ qerr \in Failures) => DONE \notin Range(events)

\* C4 witness: a streaming request with a question has ended with the error
\* status 500, no event and no [DONE] written.
C4_Witness ==
    /\ req.mode = "stream" /\ req.question # "" /\ hpc = "done"
    /\ httpStatus = 500 /\ events = <<>>

\* C5: when retrieval or completion failed, the sink is closed once Query has
\* returned and the handler, streaming or buffered, does not answer 200.
C5_FailureSurfaced ==
    qerr \in Failures =>
        /\ (qpc = "returned" => closed = 1)
        /\ (hpc = "done" => httpStatus # 200)

\* C6: every chunk a query retrieves has the org_id of the query's
\* organization and comes from a document of that organization.
C6_TenantIsolation ==
    \A c \in retrieved :
        c.org_id = req.org_id /\ docs[c.document_id].org_id = req.org_id

\* C6 witness: a query has retrieved chunks while the store also holds chunks
\* of the other organization.
C6_Witness ==
    /\ retrieved # {}
    /\ \E c \in store : c.org_id # req.org_id

\* What an Upload or Delete on behalf of org must leave alone: the rows and
\* the chunks of the other organizations.
OthersUntouched(org) ==
    /\ \/ docs' = docs
       \/ \A id \in DocIds :
             (Exists(id) /\ docs[id].org_id # org) => docs'[id] = docs[id]
    /\ \/ store' = store
       \/ {c \in store' : c.org_id # org} = {c \in store : c.org_id # org}

\* C7: an Upload or a Delete issued for an organization changes no row and no
\* chunk of another organization; a Delete naming another organization's
\* document leaves its row and its chunks as they were.
C7_NoCrossTenantWrite ==
    [][\A org \in Orgs :
          \/ OthersUntouched(org)
          \/ ~ \/ \E id \in DocIds, o \in DeleteOutcomes : Delete(id, org, o)
              \/ \E content \in Contents : UploadCreate(org, content)
              \/ \E id \in DocIds : uploading[id].org_id = org /\ UploadSend(id)]_vars

\* C7 witness: a Delete that returned nil named another organization's
\* document, which had chunks in the store, and the document is still there.
C7_Witness ==
    /\ foreignDelete
    /\ \E id \in DocIds : Exists(id) /\ ChunksOf(id) # {}

StatusSteps == {<<StatusPending, StatusProcessing>>,
                <<StatusProcessing, StatusReady>>,
                <<StatusProcessing, StatusFailed>>}

\* C8: the status of a document changes only from pending to processing, from
\* processing to ready, or from processing to failed.
C8_StatusTransitions ==
    [][\A id \in DocIds :
          (Exists(id) /\ docs'[id] # NoRow /\ docs'[id].status # docs[id].status)
          => <<docs[id].status, docs'[id].status>> \in StatusSteps]_vars

\* C8 witness: one document has become ready and another failed.
C8_Witness ==
    \E a, b \in DocIds :
        /\ Exists(a) /\ docs[a].status = StatusReady
        /\ Exists(b) /\ docs[b].status = StatusFailed

\* C9: once the pipeline has quiesced, every document whose job entered the
\* queue is ready with chunk_count > 0 or failed with chunk_count = 0. (A
\* document whose job was dropped at a full queue stays pending by design and
\* is set aside.)
C9_QuiescentTerminal ==
    Quiesced =>
        \A id \in DocIds : (Exists(id) /\ fate[id] # "dropped") =>
            \/ docs[id].status = StatusReady /\ docs[id].chunk_count > 0
            \/ docs[id].status = StatusFailed /\ docs[id].chunk_count = 0

\* C10: an Upload whose select finds the queue full still completes: it
\* returns no error (its repo.Create had succeeded, the one call whose error
\* Upload returns), the row it created is left as it is, with status pending
\* unless a Delete has removed it meanwhile, and the queue is left as it was.
C10_FullQueueUpload ==
    [][\A id \in DocIds :
          (UploadSend(id) /\ Len(jobs.buf) = jobs.cap) =>
              /\ jobs' = jobs
              /\ fate[id] = "created"
              /\ docs' = docs
              /\ Exists(id) => docs'[id].status = StatusPending
              /\ fate'[id] = "dropped"]_vars

\* C10 witness: a document was uploaded while the queue was full; it is
\* pending and was never enqueued.
C10_Witness ==
    \E id \in DocIds :
        /\ fate[id] = "dropped"
        /\ Exists(id) /\ docs[id].status = StatusPending
        /\ Len(jobs.buf) = jobs.cap

\* The chunks splitDocument produces for the row of document id.
ChunksFor(id) ==
    Range(splitDocument([id |-> id, org_id |-> docs[id].org_id,
                         content |-> docs[id].content]))

\* The chunks the store holds, whatever the identifiers of their rows.
Pages == {PageOf(r) : r \in store}

\* C11: a document that is ready has all the chunks of its content in the
\* vector store, and its chunk_count is their number; the step that makes a
\* document ready finds them already written.
C11_ReadyAfterChunks ==
    /\ [](\A id \in DocIds :
            (Exists(id) /\ docs[id].status = StatusReady) =>
                /\ ChunksFor(id) \subseteq Pages
                /\ docs[id].chunk_count = Cardinality(ChunksFor(id))
                /\ docs[id].chunk_count > 0)
    /\ [][\A id \in DocIds :
            (docs'[id].status = StatusReady /\ docs[id].status # StatusReady) =>
                ChunksFor(id) \subseteq Pages]_vars

\* C11 witness: a document of more than one chunk is ready while the chunks
\* of another document are only partly written.
C11_Witness ==
    \E a, b \in DocIds :
        /\ Exists(a) /\ docs[a].status = StatusReady /\ docs[a].chunk_count > 1
        /\ Exists(b) /\ docs[b].status # StatusReady
        /\ ChunksOf(b) # {} /\ {PageOf(r) : r \in ChunksOf(b)} # ChunksFor(b)

\* C12: a document whose job ran out of its deadline is failed once the job
\* is over; it is not left pending or processing.
C12_DeadlineMarksFailed ==
    \A id \in DocIds :
        (Exists(id) /\ fate[id] = "deadline") => docs[id].status = StatusFailed

\* C13: when splitDocument has produced no chunk or AddDocuments has failed,
\* the step that follows makes the document failed with chunk_count 0, ends
\* the job without another write to the store, and enqueues nothing.
C13_FailureMarksFailed ==
    [][\A w \in Pool :
          (/\ workers[w].pc \in {"markFailed", "markFailedExpired"}
           /\ workers'[w] # workers[w]) =>
              /\ Exists(workers[w].job.id) =>
                    /\ docs'[workers[w].job.id].status = StatusFailed
                    /\ docs'[workers[w].job.id].chunk_count = 0
              /\ workers'[w] = IdleWorker
              /\ store' = store
              /\ jobs' = jobs]_vars

\* C14: a Delete by the owner that returns nil leaves neither the row nor a
\* chunk of the document; a Delete whose DeleteByDocument fails leaves the
\* row in place.
C14_DeleteRemovesChunksAndRow ==
    [][\A id \in DocIds, org \in Orgs, o \in DeleteOutcomes :
          (Delete(id, org, o) /\ DeleteTarget(id, org) = "owner") =>
              IF o = "ok"
              THEN docs'[id] = NoRow /\ {c \in store' : c.document_id = id} = {}
              ELSE o = "vsError" => docs'[id] = docs[id]]_vars

\* C15: once the pipeline has quiesced, every chunk in the store belongs to a
\* document that has a row.
C15_NoOrphanChunks ==
    Quiesced => \A c \in store : Exists(c.document_id)

\* C16: a document whose job was lost, dropped by Upload at a full queue or
\* not yet sent, still queued or in a worker when the process stopped, is
\* pending.
C16_LostJobPending ==
    \A id \in DocIds :
        (/\ Exists(id)
         /\ \/ fate[id] = "dropped"
            \/ ~Running /\ fate[id] \in {"created", "queued", "started"}) =>
            docs[id].status = StatusPending

\* C17: once Query has searched, the search was made with top_k 5 if the
\* request carried a top_k of 0 or less and with the requested top_k
\* otherwise, and no more chunks than that were retrieved; nothing is
\* retrieved before top_k is resolved.
C17_TopKResolved ==
    /\ qpc \in {"none", "retrieve"} => retrieved = {}
    /\ qpc \notin {"none", "retrieve"} =>
          /\ req.top_k <= 0 => searchK = 5
          /\ req.top_k > 0 => searchK = req.top_k
          /\ Cardinality(retrieved) <= searchK

\* C17 witness: a request with top_k 0 has retrieved more chunks than any
\* top_k a request carries.
C17_Witness ==
    req.top_k = 0 /\ searchK = 5 /\ Cardinality(retrieved) > MaxTopK

\* C18: a search that does not fail is followed by the completion call, also
\* when it returns no chunk; a query of an organization without chunks that
\* got past the search has an empty context, relays a prefix of the
\* provider's fragments (all of them when it returns nil) and closes the sink
\* once.
C18_EmptyRetrievalProceeds ==
    /\ [][(qpc = "retrieve" /\ qpc' # "retrieve" /\ qerr' # "search") =>
             (qpc' = "connect" /\ qerr' = "none")]_vars
    /\ []((req.mode # "none" /\ Candidates(req.org_id) = {}
            /\ qpc = "returned" /\ qerr # "search") =>
              /\ retrieved = {}
              /\ closed = 1
              /\ IsPrefix(sent, ProviderFragments(produced))
              /\ (qerr = "nil" => sent = ProviderFragments(produced)))

\* C18 witness: a query of an organization without chunks has returned nil
\* after relaying a fragment, and the handler has finished.
C18_Witness ==
    /\ req.mode # "none" /\ Candidates(req.org_id) = {}
    /\ qpc = "returned" /\ qerr = "nil" /\ closed = 1
    /\ Len(sent) >= 1 /\ hpc = "done"

\* The texts of a sequence joined in order.
RECURSIVE Concat(_)
Concat(texts) ==
    IF texts = <<>> THEN <<>> ELSE Head(texts) \o Concat(Tail(texts))

\* What each mode has forwarded of the relay: the answer of querySync, the
\* data events of query before [DONE].
Forwarded ==
    IF req.mode = "sync" THEN events ELSE SubSeq(events, 1, Len(events) - 1)

\* C19: a request of either mode that was not rejected for its question is
\* served from the relay: when it has finished it has answered 200, the sink
\* was closed and drained, and the text it has forwarded is the concatenation
\* of the fragments the sink received.
C19_ModesAgree ==
    (hpc = "done" /\ httpStatus # 400) =>
        /\ httpStatus = 200
        /\ closed >= 1 /\ out = <<>>
        /\ Concat(Forwarded) = Concat(sent)

\* C20: a request with an empty question is rejected before Query is started:
\* no search and no completion call is made for it.
C20_InvalidQueryRejected ==
    (req.mode # "none" /\ req.question = "") =>
        /\ qpc = "none"
        /\ searchK = 0
        /\ httpStatus \in {0, 400}

\* C21: the list of an organization holds exactly the documents that exist
\* and carry its org_id, so the lists of two organizations share nothing; a
\* list changes only by an Upload of its own organization, which adds the new
\* document to it and to no other list, or by a Delete of its own
\* organization, which takes the named document from it.
C21_ListIsTenantScoped ==
    /\ [](\A org \in Orgs, id \in DocIds :
            id \in ListByOrg(org) <=> (Exists(id) /\ docs[id].org_id = org))
    /\ [][\A org \in Orgs :
            \/ ListByOrg(org)' = ListByOrg(org)
            \/ /\ \E content \in Contents : UploadCreate(org, content)
               /\ ListByOrg(org)' = ListByOrg(org) \cup {nextId}
            \/ \E id \in DocIds :
                  /\ \E o \in DeleteOutcomes : Delete(id, org, o)
                  /\ ListByOrg(org)' = ListByOrg(org) \ {id}]_vars
    /\ [][\/ nextId' = nextId
          \/ \A org \in Orgs :
                (\E content \in Contents : UploadCreate(org, content)) =>
                    /\ nextId \in ListByOrg(org)'
                    /\ \A other \in Orgs \ {org} : nextId \notin ListByOrg(other)']_vars

\* C21 witness: each organization lists one document and a Delete by the
\* other organization that named a listed document with chunks has returned
\* nil.
C21_Witness ==
    /\ \A org \in Orgs : Cardinality(ListByOrg(org)) = 1
    /\ foreignDelete

\* The word of a text that holds its character p (characters count from 0,
\* words from 1).
WordAt(text, p) == (p \div (text.wlen + 1)) + 1

\* A worker that has split the content of its job.
HasSplit(w) == workers[w].pc \in {"add", "markReady", "markFailed", "markFailedExpired"}

\* C22: the chunks of a content that is not empty are at least one, every
\* chunk after the first begins with the last 64 words of the chunk before
\* it, and the same content always gives the same chunks.
C22_SplitOverlapsByWords ==
    \A w \in Pool : HasSplit(w) =>
        LET text == workers[w].job.content
            chunks == workers[w].chunks
        IN /\ text # NoText => Len(chunks) > 0
           /\ chunks = splitDocument(workers[w].job)
           /\ \A i \in 1..(Len(chunks) - 1) :
                 /\ WordAt(text, chunks[i].hi - 1) - ChunkOverlap + 1
                       >= WordAt(text, chunks[i].lo)
                 /\ chunks[i + 1].lo =
                       (WordAt(text, chunks[i].hi - 1) - ChunkOverlap) * (text.wlen + 1)

\* Number of words of a text that lie, whole or in part, in a chunk.
WordsIn(text, c) == WordAt(text, c.hi - 1) - WordAt(text, c.lo) + 1

\* C23: a content of 1200 words is split into exactly 3 chunks, none of more
\* than 512 words, and its document, once ready, has chunk_count 3.
C23_ThreeChunksFor1200Words ==
    /\ \A w \in Pool :
          (HasSplit(w) /\ workers[w].job.content.words = 1200) =>
              /\ Len(workers[w].chunks) = 3
              /\ \A i \in 1..Len(workers[w].chunks) :
                    WordsIn(workers[w].job.content, workers[w].chunks[i]) <= 512
    /\ \A id \in DocIds :
          (/\ Exists(id) /\ docs[id].content.words = 1200
           /\ docs[id].status = StatusReady) => docs[id].chunk_count = 3

\* C24: the store holds at most one row for every chunk of a document,
\* however often the chunk has been written.
C24_AddDocumentsIdempotent ==
    \A r1, r2 \in store : PageOf(r1) = PageOf(r2) => r1 = r2

\* Worker w is inside a call of ingest.
Busy(w) == workers[w].pc \notin {"idle", "stopped"}

\* The documents that are being ingested.
InIngestion == {workers[w].job.id : w \in {v \in Pool : Busy(v)}}

\* The last step of a call of ingest: a status update after which ingest
\* returns, or the update to processing when it fails.
LastStep(w) == workers[w].pc \in {"start", "markFailed", "markFailedExpired", "markReady"}

\* C25: no document is being ingested by two workers at once, the documents
\* being ingested are never more than the workers of the pool, a job taken
\* from the queue goes to one worker only, and a worker takes a job only when
\* it is idle and keeps it until the last step of ingest.
C25_OneWorkerPerJob ==
    /\ [](\A w1, w2 \in Pool :
            (Busy(w1) /\ Busy(w2) /\ workers[w1].job.id = workers[w2].job.id) => w1 = w2)
    /\ [](Cardinality(InIngestion) <= Cardinality(Pool))
    /\ [][\A w \in Pool :
            \/ workers'[w].job = workers[w].job
            \/ /\ ~Busy(w) /\ Busy(w)'
               /\ jobs.buf # <<>> /\ workers'[w].job = Head(jobs.buf)
               /\ jobs'.buf = Tail(jobs.buf)
               /\ \A v \in Pool \ {w} : workers'[v] = workers[v]
            \/ /\ Busy(w) /\ LastStep(w)
               /\ workers'[w] = IdleWorker]_vars

\* C25 witness: two workers are ingesting two documents at the same time.
C25_Witness ==
    \E w1, w2 \in Pool :
        /\ w1 # w2 /\ Busy(w1) /\ Busy(w2)
        /\ workers[w1].job.id # workers[w2].job.id
        /\ workers[w1].pc = "add" /\ workers[w2].pc = "markReady"

\* The job of document id was sent to the jobs channel.
Enqueued(id) == \E i \in DOMAIN sendOrder : sendOrder[i] = id

\* The job of x was sent before the job of y.
SentBefore(x, y) ==
    \E i, j \in DOMAIN sendOrder : i < j /\ sendOrder[i] = x /\ sendOrder[j] = y

\* The job of document id waits in the jobs channel.
InQueue(id) == \E i \in DOMAIN jobs.buf : jobs.buf[i].id = id

\* C26: the jobs wait in the queue in the order in which they were sent, a
\* job that leaves the queue is the oldest one waiting, and so of two jobs
\* that were enqueued the later one never leaves the queue while the earlier
\* one still waits.
C26_FifoDequeue ==
    /\ [](\A i, j \in DOMAIN jobs.buf :
            i < j => SentBefore(jobs.buf[i].id, jobs.buf[j].id))
    /\ [](\A x, y \in DocIds : (SentBefore(x, y) /\ InQueue(x)) => InQueue(y))
    /\ [][\A id \in DocIds :
            (InQueue(id) /\ ~InQueue(id)') =>
                /\ id = Head(jobs.buf).id
                /\ \E w \in Pool : ~Busy(w) /\ Busy(w)' /\ workers'[w].job.id = id]_vars

\* C26 witness: the job of X was sent before the job of Y, although the row
\* of Y was created first, and both were dequeued; Y has reached ready while
\* X is still being ingested.
C26_Witness ==
    \E x, y \in DocIds :
        /\ SentBefore(x, y) /\ y < x
        /\ fate[y] = "finished" /\ Exists(y) /\ docs[y].status = StatusReady
        /\ \E w \in Pool : Busy(w) /\ workers[w].job.id = x

\* C27: a document whose status is pending has no chunk in the vector store,
\* a job whose update to processing has not been made has no chunks split,
\* and when that update fails the job ends with nothing split and nothing
\* written.
C27_NoChunkBeforeProcessing ==
    /\ [](\A id \in DocIds :
            (Exists(id) /\ docs[id].status = StatusPending) => ChunksOf(id) = {})
    /\ [](\A w \in Pool : workers[w].pc = "start" => workers[w].chunks = <<>>)
    /\ [][\A w \in Pool, o \in CallOutcomes \ {"ok"} :
            IngestStart(w, o) =>
                /\ store' = store
                /\ docs' = docs
                /\ workers'[w] = IdleWorker]_vars

\* C27 witness: the update to processing of a document has failed; the
\* document is pending with no chunk stored, its worker is idle again, and
\* another document has its chunks in the store.
C27_Witness ==
    \E id, other \in DocIds :
        /\ fate[id] = "startWriteFailed"
        /\ Exists(id) /\ docs[id].status = StatusPending
        /\ ChunksOf(id) = {}
        /\ \A w \in Pool : ~Busy(w)
        /\ ChunksOf(other) # {}

\* C28: every job that was enqueued is eventually taken from the queue and
\* its document, unless it is deleted, eventually has the status ready or
\* failed.
C28_EnqueuedJobCompletes ==
    \A id \in DocIds :
        Enqueued(id) ~>
            /\ ~InQueue(id)
            /\ (Exists(id) => docs[id].status \in {StatusReady, StatusFailed})

\* C30: a handler that waits on the sink eventually stops waiting and
\* returns to its caller.
C30_HandlerReturns == (hpc = "range") ~> (hpc = "done")

\* C29: the jobs waiting in the queue are never more than the capacity the
\* channel was made with, the capacity never changes, and an upload that
\* finds as many jobs waiting as the capacity leaves the queue as it is.
C29_QueueWithinCapacity ==
    /\ [](Len(jobs.buf) <= jobs.cap)
    /\ [][jobs'.cap = jobs.cap]_vars
    /\ [][\A id \in DocIds :
            (Len(jobs.buf) = jobs.cap /\ UploadSend(id)) => jobs'.buf = jobs.buf]_vars

\* C29 witness: the queue holds as many jobs as its capacity, the oldest of
\* them older than a document whose upload found the queue full.
C29_Witness ==
    /\ Len(jobs.buf) = jobs.cap
    /\ \E id \in DocIds :
          /\ fate[id] = "dropped"
          /\ jobs.buf[1].id < id

\* C31: once the sink is closed the relay has returned, so it is at no scan
\* and at no select any more; every send happens while the sink is open and
\* leaves it open, and after the close nothing is added to the sink.
C31_NoSendAfterClose ==
    /\ [](closed >= 1 => qpc = "returned")
    /\ [][sent' # sent => (closed = 0 /\ closed' = 0)]_vars
    /\ [][closed >= 1 => (sent' = sent /\ Len(out') <= Len(out))]_vars

\* C31 witness: the relay has sent a fragment and then closed the sink, the
\* fragment still waiting in it for the handler.
C31_Witness ==
    /\ closed = 1 /\ qpc = "returned" /\ qerr = "nil"
    /\ Len(sent) >= 1 /\ out # <<>> /\ hpc = "range"

\* C32: a Delete of one document, whatever it returns and whoever issues it,
\* leaves the row and the chunks of every other document as they were; the
\* store gains nothing and loses at most chunks of the named document.
C32_DeleteLeavesOthers ==
    [][\A id \in DocIds :
          (\E org \in Orgs, o \in DeleteOutcomes : Delete(id, org, o)) =>
              /\ \A other \in DocIds \ {id} :
                    /\ docs'[other] = docs[other]
                    /\ {c \in store' : c.document_id = other} = ChunksOf(other)
              /\ store' \subseteq store
              /\ store \ store' \subseteq ChunksOf(id)]_vars

\* C32 witness: a document that was ingested has been deleted while another
\* document, ready and with its chunks in the store, is still there.
C32_Witness ==
    \E id \in DocIds :
        /\ id < nextId /\ ~Exists(id) /\ fate[id] = "finished"
        /\ \E other \in DocIds \ {id} :
              /\ Exists(other) /\ docs[other].status = StatusReady
              /\ ChunksOf(other) # {}
              /\ {PageOf(r) : r \in ChunksOf(other)} = ChunksFor(other)

\* Some worker holds the job of document id.
InWorker(id) == \E w \in Pool : Busy(w) /\ workers[w].job.id = id

\* C33: an Upload whose repo.Create fails returns the error and leaves the
\* queue and the documents table as they were; the document of such an
\* upload never has a row, a select to run, a job in the queue or in a
\* worker, or a chunk; and a job that enters the queue is the job of a
\* document whose row had been created before, and that row, unless a Delete
\* has removed it meanwhile, is pending.
C33_JobOnlyForPersisted ==
    /\ [][\A org \in Orgs, content \in Contents :
            UploadCreateFails(org, content) =>
                /\ jobs' = jobs /\ docs' = docs
                /\ fate'[nextId] = "notCreated"]_vars
    /\ [](\A id \in DocIds :
            fate[id] = "notCreated" =>
                /\ ~Exists(id) /\ ~InQueue(id) /\ ~InWorker(id)
                /\ uploading[id] = NoJob
                /\ ChunksOf(id) = {})
    /\ [][\A id \in DocIds :
            (~InQueue(id) /\ InQueue(id)') =>
                /\ fate[id] = "created"
                /\ Exists(id) => docs'[id].status = StatusPending
                /\ fate'[id] = "queued"]_vars

\* C33 witness: the row of one upload could not be created and nothing was
\* enqueued for it, while the job of another upload, whose row is pending,
\* waits in the queue.
C33_Witness ==
    \E a, b \in DocIds :
        /\ a < b /\ fate[a] = "notCreated" /\ ~Exists(a)
        /\ InQueue(b) /\ Exists(b) /\ docs[b].status = StatusPending
        /\ Len(jobs.buf) = 1
====
